---- MODULE Spec2Model ----
(***************************************************************************)
(* The GAN-style prompt tuning loop of src/ai-agents: the configurator     *)
(* ("Advisor": in-memory history, getHistory, clearHistory and             *)
(* suggestNextPrompt) and the generator ("Producer": run with setting      *)
(* overrides).  The hosted model behind langchainClient.invoke is the      *)
(* environment: every pending invocation may resolve with any validated    *)
(* output or any error, in any order.                                      *)
(*                                                                         *)
(* Text is a sequence of one-character strings, so that slice, trim and    *)
(* concatenation are computed and not assumed.  Temperatures are written   *)
(* in tenths (0.7 is 7).  An optional property that is absent is a field   *)
(* that is not in the record's DOMAIN, as in the JavaScript object.        *)
(***************************************************************************)
EXTENDS Integers, Sequences, FiniteSets, TLC

-----------------------------------------------------------------------------
(* Bounds of the model *)

\* suggestNextPrompt calls issued in one behaviour
MaxCalls == 2
\* history arrays allocated by clearHistory in one behaviour
MaxClears == 1
\* generator runs in one behaviour
MaxRuns == 2
\* how far around a truncation limit the lengths of the rendered texts go
MaxOver == 2

-----------------------------------------------------------------------------
(* Text *)

Min(a, b) == IF a < b THEN a ELSE b

\* the truncation marker the templates append
Ellipsis == <<".", ".", ".">>

\* String.prototype.slice(0, n) for n >= 0
Slice(s, n) == SubSeq(s, 1, Min(n, Len(s)))

IsWhiteSpace(ch) == ch \in {" ", "\n", "\t"}

RECURSIVE TrimStart(_)
TrimStart(s) ==
    IF s # <<>> /\ IsWhiteSpace(Head(s)) THEN TrimStart(Tail(s)) ELSE s

RECURSIVE TrimEnd(_)
TrimEnd(s) ==
    IF s # <<>> /\ IsWhiteSpace(s[Len(s)])
    THEN TrimEnd(SubSeq(s, 1, Len(s) - 1))
    ELSE s

\* String.prototype.trim()
Trim(s) == TrimEnd(TrimStart(s))

\* a text of n characters; shift chooses which character comes first
Text(n, shift) == [i \in 1..n |-> <<"a", "b", "c">>[((i + shift) % 3) + 1]]

-----------------------------------------------------------------------------
(* Configurator: the request sent to the model *)

ExcerptLimit == 1500
PromptPreviewLimit == 120
SuggestedPreviewLimit == 60

NoPreviousRuns == <<"No previous runs yet.">>

\* `${h.generatorPrompt.slice(0, 120)}${h.generatorPrompt.length > 120 ? '...' : ''}`
PromptPreview(p) ==
    Slice(p, PromptPreviewLimit)
        \o (IF Len(p) > PromptPreviewLimit THEN Ellipsis ELSE <<>>)

\* `${h.suggestedNextPrompt.slice(0, 60)}...`
SuggestedPreview(p) == Slice(p, SuggestedPreviewLimit) \o Ellipsis

\* `${cvContent.slice(0, 1500)}${cvContent.length > 1500 ? '...' : ''}`, and
\* the same expression over jobRequirements
Excerpt(t) ==
    Slice(t, ExcerptLimit) \o (IF Len(t) > ExcerptLimit THEN Ellipsis ELSE <<>>)

\* one line of the history block: Run i: prompt="...", score=...
\* and, when the entry has one, (suggested next prompt: "...")
HistoryLine(h, i) ==
    LET part == [run |-> i, prompt |-> PromptPreview(h.generatorPrompt),
                 score |-> h.score]
    IN  IF "suggestedNextPrompt" \in DOMAIN h
        THEN [run |-> i, prompt |-> part.prompt, score |-> part.score,
              suggested |-> SuggestedPreview(h.suggestedNextPrompt)]
        ELSE part

\* the history block, rendered from the array as it is when the block is built
HistoryBlock(hist) ==
    IF Len(hist) = 0
    THEN [empty |-> TRUE, text |-> NoPreviousRuns]
    ELSE [empty |-> FALSE, lines |-> [i \in 1..Len(hist) |-> HistoryLine(hist[i], i)]]

\* cvBlock and jobBlock: an excerpt when the optional text is given, else ''
ContextBlock(opt) ==
    IF opt.given THEN [given |-> TRUE, excerpt |-> Excerpt(opt.text)]
    ELSE [given |-> FALSE]

\* userPrompt, kept by its parts
UserPrompt(hist, generatorPrompt, score, cvContent, jobRequirements) ==
    [historyBlock |-> HistoryBlock(hist),
     generatorPrompt |-> generatorPrompt,
     score |-> score,
     jobBlock |-> ContextBlock(jobRequirements),
     cvBlock |-> ContextBlock(cvContent)]

-----------------------------------------------------------------------------
(* Configurator: the history *)

\* the entry object a call builds; id is the object's identity (the number of
\* the call that allocated it), generatorConfig a copy of the caller's object
NewEntry(id, generatorPrompt, generatorConfig, score) ==
    [id |-> id,
     generatorPrompt |-> generatorPrompt,
     generatorConfig |-> [f \in DOMAIN generatorConfig |-> generatorConfig[f]],
     score |-> score]

\* a mutant of Push: an instruction equal to the last entry's is not logged again
PushUnlessRepeated(hist, entry) ==
    IF hist # <<>> /\ hist[Len(hist)].generatorPrompt = entry.generatorPrompt
    THEN hist
    ELSE Append(hist, entry)

\* a mutant of Push: the newest entry goes first
PushFront(hist, entry) == <<entry>> \o hist

\* history.push(entry)
Push(hist, entry) == Append(hist, entry)

\* if (history.length > 0 && suggested)
\*     history[history.length - 1].suggestedNextPrompt = suggested
WriteBack(hist, suggested) ==
    IF Len(hist) > 0 /\ suggested # <<>>
    THEN [hist EXCEPT ![Len(hist)] = ("suggestedNextPrompt" :> suggested) @@ @]
    ELSE hist

\* a mutant of Response: the suggestion is returned as it came, untrimmed
ResponseRaw(result, generatorPrompt) ==
    IF result.suggestedPrompt # <<>> THEN result.suggestedPrompt ELSE generatorPrompt

\* suggested || generatorPrompt, with suggested the trimmed suggestedPrompt
Response(result, generatorPrompt) ==
    IF Trim(result.suggestedPrompt) # <<>>
    THEN Trim(result.suggestedPrompt)
    ELSE generatorPrompt

-----------------------------------------------------------------------------
(* Configurator: inputs the model draws from *)

RunInputs ==
    {[generatorPrompt |-> <<"a">>, score |-> 4,
      generatorConfig |-> [temperature |-> 7, maxTokens |-> 1024, timeout |-> 30000]],
     [generatorPrompt |-> <<" ", "b", "a">>, score |-> 9,
      generatorConfig |-> [temperature |-> 2, maxTokens |-> 256]]}

\* the optional cvContent and jobRequirements of a call
Contexts ==
    {[cvContent |-> [given |-> FALSE],
      jobRequirements |-> [given |-> TRUE, text |-> <<"j", "o", "b">>]],
     [cvContent |-> [given |-> TRUE, text |-> <<"c", "v">>],
      jobRequirements |-> [given |-> FALSE]]}

\* what the model may answer: result.response.suggestedPrompt
SuggestedPrompts == {<<" ", "\n">>, <<" ", "c", "\t">>}

\* what a failed invocation may carry: result.error
Errors == {"timeout", "schema"}

-----------------------------------------------------------------------------
(* Configurator: state *)

VARIABLES
    heap,      \* the history arrays allocated so far, by reference
    history,   \* the module variable `history`: a reference into heap
    calls,     \* the suggestNextPrompt calls: idle, pending on invoke, or done
    nextCall,  \* the number of the next call to be issued
    issued,    \* the calls issued since the history variable was last reset
    request,   \* the userPrompt of the latest call
    view,      \* what the latest getHistory returned, and what it held then
    lastOp     \* the operation that took the latest step

advisorVars == <<heap, history, calls, nextCall, issued, request, view, lastOp>>

VARIABLES
    genRuns  \* the generator runs: prompt, overrides, settings passed, result

genVars == <<genRuns>>

VARIABLES
    rendKind,   \* which bounded rendering is applied
    rendInput,  \* the text it is applied to
    rendOutput  \* the rendering, once made

rendVars == <<rendKind, rendInput, rendOutput>>

vars == <<advisorVars, genVars, rendVars>>

Current == heap[history]

Pending == {c \in 1..MaxCalls : calls[c].state = "pending"}

AdvisorInit ==
    /\ heap = [r \in 0..MaxClears |-> <<>>]
    /\ history = 0
    /\ calls = [c \in 1..MaxCalls |-> [state |-> "idle"]]
    /\ nextCall = 1
    /\ issued = 0
    /\ request = [sent |-> FALSE]
    /\ view = [held |-> FALSE]
    /\ lastOp = [op |-> "init"]

\* getHistory(): return history -- the array itself
GetHistory ==
    /\ view' = [held |-> TRUE, ref |-> history, seen |-> heap[history]]
    /\ lastOp' = [op |-> "getHistory"]
    /\ UNCHANGED <<heap, history, calls, nextCall, issued, request>>
    /\ UNCHANGED <<genVars, rendVars>>

\* a mutant of ClearHistory: the array is kept
ClearHistoryKeeps ==
    /\ lastOp' = [op |-> "clearHistory"]
    /\ issued' = 0
    /\ UNCHANGED <<heap, history, calls, nextCall, request, view>>
    /\ UNCHANGED <<genVars, rendVars>>

\* clearHistory(): history = [] -- a new array; the old one is left as it is
ClearHistory ==
    /\ history < MaxClears
    /\ history' = history + 1
    /\ issued' = 0
    /\ lastOp' = [op |-> "clearHistory"]
    /\ UNCHANGED <<heap, calls, nextCall, request, view>>
    /\ UNCHANGED <<genVars, rendVars>>

\* suggestNextPrompt up to its await: the entry is pushed, the request built
\* from the array after the push, and the invocation left pending
SuggestNextPrompt(params, cvContent, jobRequirements) ==
    /\ nextCall <= MaxCalls
    /\ LET entry == NewEntry(nextCall, params.generatorPrompt,
                             params.generatorConfig, params.score)
           pushed == Push(heap[history], entry)
       IN  /\ heap' = [heap EXCEPT ![history] = pushed]
           /\ request' = [sent |-> TRUE, call |-> nextCall,
                          userPrompt |-> UserPrompt(pushed, params.generatorPrompt,
                                                    params.score, cvContent,
                                                    jobRequirements)]
    /\ calls' = [calls EXCEPT ![nextCall] =
                    [state |-> "pending", params |-> params]]
    /\ nextCall' = nextCall + 1
    /\ issued' = issued + 1
    /\ lastOp' = [op |-> "suggestNextPrompt", call |-> nextCall]
    /\ UNCHANGED <<history, view>>
    /\ UNCHANGED <<genVars, rendVars>>

\* the continuation of call c when invoke resolves with success
InvokeSucceeds(c, result) ==
    /\ calls[c].state = "pending"
    /\ heap' = [heap EXCEPT ![history] = WriteBack(@, Trim(result.suggestedPrompt))]
    /\ calls' = [calls EXCEPT ![c] =
                    [state |-> "done", params |-> @.params,
                     result |-> [success |-> TRUE, response |-> result],
                     returned |-> [success |-> TRUE,
                                   response |-> Response(result, @.params.generatorPrompt)]]]
    /\ lastOp' = [op |-> "succeeded", call |-> c]
    /\ UNCHANGED <<history, nextCall, issued, request, view>>
    /\ UNCHANGED <<genVars, rendVars>>

\* the continuation of call c when invoke resolves with a failure
InvokeFails(c, error) ==
    /\ calls[c].state = "pending"
    /\ calls' = [calls EXCEPT ![c] =
                    [state |-> "done", params |-> @.params,
                     result |-> [success |-> FALSE, error |-> error],
                     returned |-> [success |-> FALSE, error |-> error]]]
    /\ lastOp' = [op |-> "failed", call |-> c]
    /\ UNCHANGED <<heap, history, nextCall, issued, request, view>>
    /\ UNCHANGED <<genVars, rendVars>>

Issue ==
    \E params \in RunInputs : \E ctx \in Contexts :
        SuggestNextPrompt(params, ctx.cvContent, ctx.jobRequirements)

Succeed ==
    \E c \in 1..MaxCalls : \E s \in SuggestedPrompts :
        InvokeSucceeds(c, [suggestedPrompt |-> s])

Fail == \E c \in 1..MaxCalls : \E e \in Errors : InvokeFails(c, e)

Next ==
    \/ GetHistory
    \/ ClearHistory
    \/ Issue
    \/ Succeed
    \/ Fail

\* one caller that awaits every call before it does anything else
NextSequential ==
    \/ Pending = {} /\ GetHistory
    \/ Pending = {} /\ ClearHistory
    \/ Pending = {} /\ Issue
    \/ Succeed
    \/ Fail

-----------------------------------------------------------------------------
(* Generator *)

\* DEFAULT_SETTINGS of the generator
GENERATOR_DEFAULT_SETTINGS ==
    [temperature |-> 7, maxTokens |-> 1024, timeout |-> 30000]

SettingFields == {"temperature", "maxTokens", "timeout"}

\* an object literal {...a, ...b}: the properties of a, then those of b over them
SpreadOver(a, b) == b @@ a

\* a mutant of MergeSettings: the spreads in the other order, defaults last
MergeSettingsDefaultsLast(overrides) ==
    SpreadOver(overrides, GENERATOR_DEFAULT_SETTINGS)

\* settings = { ...DEFAULT_SETTINGS, ...overrides }
MergeSettings(overrides) == SpreadOver(GENERATOR_DEFAULT_SETTINGS, overrides)

\* the values a caller overrides a field with
OverrideValues ==
    [temperature |-> {0, 10}, maxTokens |-> {256}, timeout |-> {5000}]

\* overrides: any set of the fields, each with one of its values; the empty
\* one is also what an omitted argument spreads to
Overrides ==
    UNION {[fs -> UNION {OverrideValues[f] : f \in fs}] : fs \in SUBSET SettingFields}

ValidOverrides ==
    {o \in Overrides : \A f \in DOMAIN o : o[f] \in OverrideValues[f]}

GeneratorPrompts == {<<"p">>, <<"q">>}

GeneratedTexts == {<<"t">>}

\* run up to its await: the settings are merged and passed to invoke
GeneratorRun(prompt, overrides) ==
    /\ Len(genRuns) < MaxRuns
    /\ genRuns' = Append(genRuns,
                         [state |-> "pending", prompt |-> prompt,
                          overrides |-> overrides,
                          settings |-> MergeSettings(overrides)])
    /\ UNCHANGED <<advisorVars, rendVars>>

\* the continuation of run i: the text on success, the error on failure
GeneratorReturns(i, result) ==
    /\ i \in DOMAIN genRuns
    /\ genRuns[i].state = "pending"
    /\ genRuns' = [genRuns EXCEPT ![i] =
                      [state |-> "done", prompt |-> @.prompt,
                       overrides |-> @.overrides, settings |-> @.settings,
                       returned |-> IF result.success
                                    THEN [success |-> TRUE, response |-> result.response.text]
                                    ELSE [success |-> FALSE, error |-> result.error]]]
    /\ UNCHANGED <<advisorVars, rendVars>>

StartRun ==
    \E prompt \in GeneratorPrompts : \E o \in ValidOverrides : GeneratorRun(prompt, o)

FinishRun ==
    \E i \in 1..MaxRuns :
        \/ \E t \in GeneratedTexts :
              GeneratorReturns(i, [success |-> TRUE, response |-> [text |-> t]])
        \/ \E e \in Errors : GeneratorReturns(i, [success |-> FALSE, error |-> e])

NextGenerator ==
    \/ StartRun
    \/ FinishRun

-----------------------------------------------------------------------------
(* The bounded renderings of the request, one text at a time *)

RenderKinds == {"cvContent", "jobRequirements", "generatorPrompt", "suggestedNextPrompt"}

\* the limit the template applies to each kind of text
LimitOf(kind) ==
    CASE kind \in {"cvContent", "jobRequirements"} -> ExcerptLimit
      [] kind = "generatorPrompt" -> PromptPreviewLimit
      [] kind = "suggestedNextPrompt" -> SuggestedPreviewLimit

\* lengths at both ends of the range and around the limit
LengthsAround(limit) == {0, 1} \cup ((limit - MaxOver)..(limit + MaxOver))

\* the entry whose history line shows the given instruction and suggestion
EntryShowing(prompt, suggested) ==
    ("suggestedNextPrompt" :> suggested)
        @@ NewEntry(1, prompt, [temperature |-> 7, maxTokens |-> 1024], 4)

\* the rendering of text t where the request shows a text of that kind
Rendered(kind, t) ==
    CASE kind = "cvContent" ->
            UserPrompt(<<>>, <<>>, 4, [given |-> TRUE, text |-> t],
                       [given |-> FALSE]).cvBlock.excerpt
      [] kind = "jobRequirements" ->
            UserPrompt(<<>>, <<>>, 4, [given |-> FALSE],
                       [given |-> TRUE, text |-> t]).jobBlock.excerpt
      [] kind = "generatorPrompt" ->
            HistoryBlock(<<EntryShowing(t, <<>>)>>).lines[1].prompt
      [] kind = "suggestedNextPrompt" ->
            HistoryBlock(<<EntryShowing(<<>>, t)>>).lines[1].suggested

Render ==
    /\ ~rendOutput.made
    /\ rendOutput' = [made |-> TRUE, text |-> Rendered(rendKind, rendInput)]
    /\ UNCHANGED <<rendKind, rendInput, advisorVars, genVars>>

NextRender == Render

-----------------------------------------------------------------------------
(* Specifications *)

GenIdle == genRuns = <<>>

RendIdle ==
    /\ rendKind = "none"
    /\ rendInput = <<>>
    /\ rendOutput = [made |-> FALSE]

Init == AdvisorInit /\ GenIdle /\ RendIdle

\* the configurator under any interleaving of calls and resolutions
Spec == Init /\ [][Next]_vars

\* the configurator used by one caller that awaits every call
SpecSequential == Init /\ [][NextSequential]_vars

\* the generator
SpecGenerator == Init /\ [][NextGenerator]_vars

InitRender ==
    /\ AdvisorInit
    /\ GenIdle
    /\ rendKind \in RenderKinds
    /\ \E n \in LengthsAround(LimitOf(rendKind)) : \E shift \in 0..2 :
          rendInput = Text(n, shift)
    /\ rendOutput = [made |-> FALSE]

\* the renderings, over texts of every length around their limits
SpecRender == InitRender /\ [][NextRender]_vars

-----------------------------------------------------------------------------
(* Vocabulary of the properties *)

\* the instruction, settings snapshot and score of an entry
Core(h) ==
    [generatorPrompt |-> h.generatorPrompt,
     generatorConfig |-> h.generatorConfig,
     score |-> h.score]

HasSuggestion(h) == "suggestedNextPrompt" \in DOMAIN h

Blank(s) == \A i \in DOMAIN s : IsWhiteSpace(s[i])

\* t is s without its leading and trailing white space
IsTrimOf(t, s) ==
    IF Blank(s) THEN t = <<>>
    ELSE /\ t # <<>>
         /\ ~IsWhiteSpace(t[1])
         /\ ~IsWhiteSpace(t[Len(t)])
         /\ \E k \in 0..(Len(s) - Len(t)) :
               /\ SubSeq(s, k + 1, k + Len(t)) = t
               /\ \A i \in 1..k : IsWhiteSpace(s[i])
               /\ \A i \in (k + Len(t) + 1)..Len(s) : IsWhiteSpace(s[i])

\* every entry of every array allocated so far, with the array it is in
Entries ==
    {[ref |-> r, at |-> i] : r \in 0..MaxClears, i \in 1..MaxCalls}

Allocated == {e \in Entries : e.at \in DOMAIN heap[e.ref]}

Succeeded(c) == calls[c].state = "done" /\ calls[c].result.success

Failed(c) == calls[c].state = "done" /\ ~calls[c].result.success

-----------------------------------------------------------------------------
(* Properties *)

\* C1: the history holds one record per suggestNextPrompt call issued since
\* the last reset, whatever the calls ended in, and a call's record is in the
\* history, as its last record, while its invocation is still pending
C1_OneRecordPerCall ==
    /\ Len(Current) = issued
    /\ lastOp.op = "suggestNextPrompt" =>
          /\ calls[lastOp.call].state = "pending"
          /\ Current[Len(Current)].id = lastOp.call

C1_Witness ==
    /\ issued = 2
    /\ Len(Current) = 2
    /\ Succeeded(1)
    /\ Failed(2)

\* C2: in sequential use, a call whose invocation succeeded returns the
\* trimmed suggestion and leaves it in the last record's suggestedNextPrompt
\* when it is not empty, and returns the instruction it was given and leaves
\* the last record without suggestedNextPrompt when it is empty
C2_SuccessResult ==
    lastOp.op = "succeeded" =>
        LET c == lastOp.call
            raw == calls[c].result.response.suggestedPrompt
            out == calls[c].returned
        IN  /\ out.success
            /\ Current # <<>>
            /\ IF Blank(raw)
               THEN /\ out.response = calls[c].params.generatorPrompt
                    /\ ~HasSuggestion(Current[Len(Current)])
               ELSE /\ IsTrimOf(out.response, raw)
                    /\ HasSuggestion(Current[Len(Current)])
                    /\ Current[Len(Current)].suggestedNextPrompt = out.response

C2_Witness ==
    /\ lastOp.op = "succeeded"
    /\ lastOp.call = 2
    /\ calls[2].result.response.suggestedPrompt = <<" ", "c", "\t">>
    /\ Current[Len(Current)].suggestedNextPrompt = <<"c">>
    /\ Succeeded(1)
    /\ Blank(calls[1].result.response.suggestedPrompt)
    /\ calls[1].returned.response = <<" ", "b", "a">>

\* C3: when a call's invocation fails, the step changes no record, the call
\* returns the error it received, and the record the call appended (when the
\* history was not reset since) has the call's instruction, settings and
\* score and no suggestedNextPrompt
C3_FailureKeepsRecord ==
    [][\A c \in 1..MaxCalls :
          (calls[c].state = "pending" /\ calls'[c].state = "done"
              /\ ~calls'[c].result.success) =>
             /\ heap' = heap
             /\ calls'[c].returned = [success |-> FALSE,
                                      error |-> calls'[c].result.error]
             /\ \A i \in DOMAIN Current' :
                   Current'[i].id = c =>
                      /\ Core(Current'[i]) = Core(NewEntry(c,
                            calls'[c].params.generatorPrompt,
                            calls'[c].params.generatorConfig,
                            calls'[c].params.score))
                      /\ ~HasSuggestion(Current'[i])]_vars

\* C4: what getHistory returned still holds what it held when it was returned
C4_SnapshotView == view.held => heap[view.ref] = view.seen

\* C5: a call made while the history is empty sends the history block
\* "No previous runs yet." with the instruction and the score of the call
C5_EmptyHistoryBlock ==
    [][(Current = <<>> /\ nextCall' = nextCall + 1) =>
          /\ request'.userPrompt.historyBlock = [empty |-> TRUE, text |-> NoPreviousRuns]
          /\ request'.userPrompt.generatorPrompt = calls'[nextCall].params.generatorPrompt
          /\ request'.userPrompt.score = calls'[nextCall].params.score]_vars

\* C6: the records of the history are those of the calls issued since the
\* last reset, in the order of issue, however the calls interleave and
\* resolve; a step that is not a reset keeps every record in its place, with
\* its instruction, settings and score, and adds records only at the end
C6_CallOrder ==
    [][/\ Len(Current') = issued'
       /\ \A i \in DOMAIN Current' :
             /\ Current'[i].id = nextCall' - issued' + i - 1
             /\ Core(Current'[i]) = Core(calls'[Current'[i].id].params)
       /\ lastOp'.op # "clearHistory" =>
             /\ Len(Current') >= Len(Current)
             /\ \A i \in DOMAIN Current :
                   /\ Current'[i].id = Current[i].id
                   /\ Core(Current'[i]) = Core(Current[i])]_vars

C6_Witness ==
    /\ Len(Current) = 2
    /\ Current[1].id = 1
    /\ Current[2].id = 2
    /\ calls[1].state = "pending"
    /\ calls[2].state = "done"
    /\ Core(Current[1]) # Core(Current[2])

\* C7: a record has a suggestedNextPrompt only when the call that appended
\* it succeeded, and then it is what that call returned; and a record of the
\* history whose call succeeded with a suggestion that is not blank has it
C7_OwnRecordOnly ==
    /\ \A e \in Allocated :
          LET h == heap[e.ref][e.at]
          IN  HasSuggestion(h) =>
                 /\ Succeeded(h.id)
                 /\ calls[h.id].returned.response = h.suggestedNextPrompt
    /\ \A i \in DOMAIN Current :
          LET h == Current[i]
          IN  (Succeeded(h.id) /\ ~Blank(calls[h.id].result.response.suggestedPrompt)) =>
                 /\ HasSuggestion(h)
                 /\ h.suggestedNextPrompt = calls[h.id].returned.response

\* C8: clearHistory leaves the history empty, getHistory right after it
\* returns an empty sequence, and no other step empties a history that holds
\* records
C8_ClearEmpties ==
    [][/\ lastOp'.op = "clearHistory" => Current' = <<>>
       /\ (lastOp.op = "clearHistory" /\ lastOp'.op = "getHistory") =>
             heap'[view'.ref] = <<>> /\ view'.seen = <<>>
       /\ (Current # <<>> /\ Current' = <<>>) => lastOp'.op = "clearHistory"]_vars

C8_Witness ==
    /\ lastOp.op = "getHistory"
    /\ view.ref = history
    /\ view.seen = <<>>
    /\ history > 0
    /\ Len(heap[history - 1]) = 2
    /\ HasSuggestion(heap[history - 1][2])
    /\ ~HasSuggestion(heap[history - 1][1])

\* C9: the settings a generator run passes are the defaults (0.7, 1024,
\* 30 s) with the fields its own overrides give replaced, and no others,
\* whatever the overrides of the runs before it
C9_MergedSettings ==
    \A i \in DOMAIN genRuns :
        /\ DOMAIN genRuns[i].settings = SettingFields
        /\ \A f \in SettingFields :
              genRuns[i].settings[f] =
                 IF f \in DOMAIN genRuns[i].overrides
                 THEN genRuns[i].overrides[f]
                 ELSE [temperature |-> 7, maxTokens |-> 1024, timeout |-> 30000][f]

C9_Witness ==
    /\ Len(genRuns) = 2
    /\ DOMAIN genRuns[1].overrides = {"temperature", "timeout"}
    /\ genRuns[1].settings = [temperature |-> 10, maxTokens |-> 1024, timeout |-> 5000]
    /\ DOMAIN genRuns[2].overrides = {}
    /\ genRuns[2].settings = [temperature |-> 7, maxTokens |-> 1024, timeout |-> 30000]

\* C10: a bounded rendering is the first B characters of the text, followed
\* by "..." when the text is longer than B and by nothing when it is not,
\* with B 1500 for the excerpts, 120 for an instruction and 60 for a
\* suggested instruction
C10_BoundedRendering ==
    rendOutput.made =>
        LET b == CASE rendKind \in {"cvContent", "jobRequirements"} -> 1500
                   [] rendKind = "generatorPrompt" -> 120
                   [] rendKind = "suggestedNextPrompt" -> 60
            n == Len(rendInput)
        IN  rendOutput.text =
               [i \in 1..(IF n > b THEN b + 3 ELSE n) |->
                   IF i <= b THEN rendInput[i] ELSE "."]

====
